---- MODULE Spec2Model ----
(***************************************************************************)
(* Collection / analysis pipeline of the code review assistant:            *)
(*   src/github_client.py  GitHubClient (remote tree walk, content fetch)  *)
(*   src/main.py           CodeReviewAssistant (the three analysis modes)  *)
(*   src/llm_analyzer.py   LLMAnalyzer (inference call, response parser,   *)
(*                         batch loop and summary)                         *)
(*                                                                         *)
(* Texts (model responses) are sequences of one-character strings.  File   *)
(* names and paths are sequences of symbols ("a", ".py", "/").  Numbers    *)
(* are held in tenths (fixed point), so that round(x, 1) is exact.         *)
(***************************************************************************)
EXTENDS Integers, Sequences, FiniteSets, TLC

VARIABLES
    pc,                 \* position of the run (which statement executes next)
    mode,               \* "repo" | "pr" | "local": the analysis entry point
    max_files,          \* analyze_repository's max_files argument (0: None or 0)
    all_files,          \* get_all_files' result / all_file_paths of the local walk
    valid_files,        \* analyze_repository's valid_files (filtered, sorted, capped)
    pr_files,           \* analyze_pull_request's pr_files
    files_with_content, \* the records handed to analyze_multiple_files
    idx,                \* index of the next element of the running for loop
    fetch_log,          \* history: one entry per content fetch / file read issued
    results,            \* analyze_multiple_files' results
    total_score,        \* analyze_multiple_files' total_score (tenths)
    llm_log,            \* history: what _call_ollama returned for results[i]
    report,             \* the value the entry point returned
    response,           \* parser specification: the text given to the parser
    parsed,             \* parser specification: what _parse_json_response did
    tree,               \* walk specification: what the API answers for the remote tree
    rendered,           \* main: the report renderers invoked
    discarded           \* main: how many results an interrupt found accumulated

vars == <<pc, mode, max_files, all_files, valid_files, pr_files,
          files_with_content, idx, fetch_log, results, total_score, llm_log,
          report, response, parsed, tree, rendered, discarded>>

(***************************************************************************)
(* Configuration (src/config.py).  The two limits are read from the        *)
(* environment; the model runs the configuration MAX_FILE_SIZE = 2,        *)
(* MAX_FILES_PER_ANALYSIS = 3.                                             *)
(***************************************************************************)
SUPPORTED_EXTENSIONS == <<<<".py">>, <<".js">>>>

MAX_FILE_SIZE == 2

MAX_FILES_PER_ANALYSIS == 3

\* Stand-in for the 500 of response[:500], scaled to the model's short texts.
RAW_RESPONSE_LIMIT == 3

\* Longest text the parser specification enumerates.
MaxTextLen == 5

(***************************************************************************)
(* Python values.  Optional: None or a text / list.  JSON values are tagged *)
(* records, one field name per type of payload.                            *)
(***************************************************************************)
None == [some |-> FALSE, val |-> <<>>]

Some(v) == [some |-> TRUE, val |-> v]

\* Python truthiness of an Optional[str] or Optional[list]: None, '' and [] are false.
Truthy(o) == o.some /\ Len(o.val) > 0

Num(n) == [t |-> "num", num |-> n]

StrV(s) == [t |-> "str", str |-> s]

ListV(s) == [t |-> "list", items |-> s]

ObjV(d) == [t |-> "obj", members |-> d]

EmptyDict == <<>>

Min(a, b) == IF a <= b THEN a ELSE b

RECURSIVE Join(_)
\* The Python str of a text (sequence of characters).
Join(s) == IF s = <<>> THEN "" ELSE s[1] \o Join(Tail(s))

(***************************************************************************)
(* json.loads, for the JSON subset the model's texts can spell:            *)
(*   value  ::= object | list | string | number                            *)
(*   object ::= "{" [ key value { "," key value } ] "}"                    *)
(*   list   ::= "[" [ value { "," value } ] "]"                            *)
(*   string ::= quote { character other than the quote } quote             *)
(*   number ::= "0" | nonzero-digit { digit }                              *)
(* A key is one character standing for the quoted key and its colon:       *)
(* S "overall_score":, I "issues":, M "improvements":,                     *)
(* P "positive_points":, R "raw_response":, E "error":, K "other":         *)
(***************************************************************************)
\* The character that delimits a JSON string.
Quote == "\""

Digits == {"0", "1", "2", "3", "4", "5", "6", "7", "8", "9"}

DigitVal(c) ==
    CASE c = "0" -> 0 [] c = "1" -> 1 [] c = "2" -> 2 [] c = "3" -> 3
      [] c = "4" -> 4 [] c = "5" -> 5 [] c = "6" -> 6 [] c = "7" -> 7
      [] c = "8" -> 8 [] c = "9" -> 9

KeyChars == {"S", "I", "M", "P", "R", "E", "K"}

KeyName(c) ==
    CASE c = "S" -> "overall_score"
      [] c = "I" -> "issues"
      [] c = "M" -> "improvements"
      [] c = "P" -> "positive_points"
      [] c = "R" -> "raw_response"
      [] c = "E" -> "error"
      [] c = "K" -> "other"

\* A failed decode (json.JSONDecodeError).
DecodeError == [ok |-> FALSE, val |-> Num(0), pos |-> 0]

Decoded(v, p) == [ok |-> TRUE, val |-> v, pos |-> p]

RECURSIVE ScanDigits(_, _, _)
\* Digits from position i on, acc the value read so far: <<value, next position>>.
ScanDigits(t, i, acc) ==
    IF i <= Len(t) /\ t[i] \in Digits
    THEN ScanDigits(t, i + 1, 10 * acc + DigitVal(t[i]))
    ELSE <<acc, i>>

\* A number at position i (a digit is there): no leading zero.  Value in tenths.
ParseNumber(t, i) ==
    LET r == ScanDigits(t, i, 0)
    IN  IF t[i] = "0" /\ r[2] > i + 1
        THEN Decoded(Num(0), i + 1)   \* "0" ends the number; what follows is extra data
        ELSE Decoded(Num(10 * r[1]), r[2])

RECURSIVE ScanString(_, _)
\* Position of the closing quote at or after i, 0 if there is none.
ScanString(t, i) ==
    IF i > Len(t) THEN 0
    ELSE IF t[i] = Quote THEN i
    ELSE ScanString(t, i + 1)

\* A string at position i (the opening quote is there).
ParseString(t, i) ==
    LET close == ScanString(t, i + 1)
    IN  IF close = 0 THEN DecodeError
        ELSE Decoded(StrV(Join(SubSeq(t, i + 1, close - 1))), close + 1)

RECURSIVE ParseValue(_, _), ParseElems(_, _, _), ParseMembers(_, _, _)
\* The JSON value that starts at position i of t.
ParseValue(t, i) ==
    IF i > Len(t) THEN DecodeError
    ELSE IF t[i] = "{" THEN
        IF i + 1 <= Len(t) /\ t[i + 1] = "}"
        THEN Decoded(ObjV(EmptyDict), i + 2)
        ELSE ParseMembers(t, i + 1, EmptyDict)
    ELSE IF t[i] = "[" THEN
        IF i + 1 <= Len(t) /\ t[i + 1] = "]"
        THEN Decoded(ListV(<<>>), i + 2)
        ELSE ParseElems(t, i + 1, <<>>)
    ELSE IF t[i] = Quote THEN ParseString(t, i)
    ELSE IF t[i] \in Digits THEN ParseNumber(t, i)
    ELSE DecodeError

\* The elements of a list from position i on; acc holds the ones already read.
ParseElems(t, i, acc) ==
    LET r == ParseValue(t, i)
    IN  IF ~r.ok \/ r.pos > Len(t) THEN DecodeError
        ELSE IF t[r.pos] = "," THEN ParseElems(t, r.pos + 1, Append(acc, r.val))
        ELSE IF t[r.pos] = "]" THEN Decoded(ListV(Append(acc, r.val)), r.pos + 1)
        ELSE DecodeError

\* The members of an object from position i on; a repeated key keeps the last value.
ParseMembers(t, i, acc) ==
    IF i > Len(t) \/ t[i] \notin KeyChars THEN DecodeError
    ELSE LET r == ParseValue(t, i + 1)
         IN  IF ~r.ok \/ r.pos > Len(t) THEN DecodeError
             ELSE LET d == (KeyName(t[i]) :> r.val) @@ acc
                  IN  IF t[r.pos] = "," THEN ParseMembers(t, r.pos + 1, d)
                      ELSE IF t[r.pos] = "}" THEN Decoded(ObjV(d), r.pos + 1)
                      ELSE DecodeError

\* json.loads(s): the whole of s must be one value.
JsonLoads(s) ==
    LET r == ParseValue(s, 1)
    IN  IF r.ok /\ r.pos = Len(s) + 1 THEN r ELSE DecodeError

(***************************************************************************)
(* LLMAnalyzer._parse_json_response (src/llm_analyzer.py)                  *)
(***************************************************************************)
\* str.find(c): 0-based index of the first c, -1 if there is none.
Find(t, c) ==
    IF \E i \in 1..Len(t) : t[i] = c
    THEN (CHOOSE i \in 1..Len(t) : t[i] = c /\ \A j \in 1..(i - 1) : t[j] # c) - 1
    ELSE -1

\* A plausible slip: the closing brace searched from the left, as the opening one.
RFindFromLeft(t, c) == Find(t, c)

\* str.rfind(c): 0-based index of the last c, -1 if there is none.
RFind(t, c) ==
    IF \E i \in 1..Len(t) : t[i] = c
    THEN (CHOOSE i \in 1..Len(t) : t[i] = c /\ \A j \in (i + 1)..Len(t) : t[j] # c) - 1
    ELSE -1

\* The slice t[a:b] for 0 <= a and 0 <= b.
Slice(t, a, b) == SubSeq(t, a + 1, Min(b, Len(t)))

\* What the call does: returns a dict, or raises (ValueError or JSONDecodeError).
Raised == [raised |-> TRUE, value |-> EmptyDict]

Returned(d) == [raised |-> FALSE, value |-> d]

_parse_json_response(resp) ==
    LET start_idx == Find(resp, "{")
        end_idx == RFind(resp, "}")
    IN  IF start_idx # -1 /\ end_idx # -1
        THEN LET json_str == Slice(resp, start_idx, end_idx + 1)
                 r == JsonLoads(json_str)
             IN  IF r.ok THEN Returned(r.val.members) ELSE Raised
        ELSE Raised

(***************************************************************************)
(* File names and paths: sequences of symbols.                             *)
(***************************************************************************)
\* str.endswith(ext)
EndsWith(name, ext) ==
    /\ Len(ext) <= Len(name)
    /\ SubSeq(name, Len(name) - Len(ext) + 1, Len(name)) = ext

\* any(name.endswith(ext) for ext in Config.SUPPORTED_EXTENSIONS)
Supported(name) ==
    \E k \in 1..Len(SUPPORTED_EXTENSIONS) : EndsWith(name, SUPPORTED_EXTENSIONS[k])

\* The path of entry `name` of directory `dir` ("" is the repository root).
PathOf(dir, name) == IF dir = <<>> THEN name ELSE dir \o <<"/">> \o name

(***************************************************************************)
(* GitHubClient (src/github_client.py)                                     *)
(***************************************************************************)
\* A reply of the GitHub API: an HTTP status (0: requests.RequestException) and,
\* with status 200, the decoded JSON body.
Reply(status, body) == [status |-> status, body |-> body]

_make_request(reply) ==
    IF reply.status = 401 THEN None
    ELSE IF reply.status = 403 THEN None
    ELSE IF reply.status # 200 THEN None
    ELSE Some(reply.body)

\* get_file_content: body is [type, decodable, content]; content is the decoded text.
get_file_content(reply) ==
    LET content_data == _make_request(reply)
    IN  IF ~content_data.some \/ content_data.val.type # "file" THEN None
        ELSE IF content_data.val.decodable THEN Some(content_data.val.content)
        ELSE None

FileItem(dir, name, size) ==
    [name |-> name, path |-> PathOf(dir, name), type |-> "file", size |-> size]

\* A directory entry; `listing` is the API's reply to get_repo_contents(path).
DirItem(dir, name, listing) ==
    [name |-> name, path |-> PathOf(dir, name), type |-> "dir", listing |-> listing]

Descriptor(item) == [name |-> item.name, path |-> item.path, size |-> item.size]

RECURSIVE _recursive_get_files(_, _), WalkContents(_, _, _), WalkContentsExtend(_, _, _),
          WalkContentsAbort(_, _, _)
\* _recursive_get_files(current_path): `listing` is the reply to
\* get_repo_contents(repo, current_path); acc is all_files before the call.
_recursive_get_files(listing, acc) ==
    LET contents == _make_request(listing)
    IN  IF ~Truthy(contents) THEN acc
        ELSE WalkContents(contents.val, 1, acc)

\* A plausible slip: the recursive call's list, which already holds the files
\* found so far, added to all_files once more.
WalkContentsExtend(contents, i, acc) ==
    IF i > Len(contents) THEN acc
    ELSE LET item == contents[i]
         IN  IF item.type = "file" THEN
                 IF Supported(item.name)
                 THEN WalkContentsExtend(contents, i + 1, Append(acc, Descriptor(item)))
                 ELSE WalkContentsExtend(contents, i + 1, acc)
             ELSE IF item.type = "dir" THEN
                 WalkContentsExtend(contents, i + 1,
                                    acc \o _recursive_get_files(item.listing, acc))
             ELSE WalkContentsExtend(contents, i + 1, acc)

\* A plausible slip: a subdirectory whose listing failed ends the traversal of the
\* directory that holds it.
WalkContentsAbort(contents, i, acc) ==
    IF i > Len(contents) THEN acc
    ELSE LET item == contents[i]
         IN  IF item.type = "file" THEN
                 IF Supported(item.name)
                 THEN WalkContentsAbort(contents, i + 1, Append(acc, Descriptor(item)))
                 ELSE WalkContentsAbort(contents, i + 1, acc)
             ELSE IF item.type = "dir" THEN
                 IF (_make_request(item.listing)).some
                 THEN WalkContentsAbort(contents, i + 1,
                                        _recursive_get_files(item.listing, acc))
                 ELSE acc
             ELSE WalkContentsAbort(contents, i + 1, acc)

\* The for loop over contents, from item i on.
WalkContents(contents, i, acc) ==
    IF i > Len(contents) THEN acc
    ELSE LET item == contents[i]
         IN  IF item.type = "file" THEN
                 IF Supported(item.name)
                 THEN WalkContents(contents, i + 1, Append(acc, Descriptor(item)))
                 ELSE WalkContents(contents, i + 1, acc)
             ELSE IF item.type = "dir" THEN
                 WalkContents(contents, i + 1, _recursive_get_files(item.listing, acc))
             ELSE WalkContents(contents, i + 1, acc)

get_all_files(listing) == _recursive_get_files(listing, <<>>)

(***************************************************************************)
(* CodeReviewAssistant.analyze_repository: selection (src/main.py 44-52)   *)
(***************************************************************************)
\* s[:n] for n >= 0
Take(s, n) == SubSeq(s, 1, Min(n, Len(s)))

SizeOk(f) == f.size <= MAX_FILE_SIZE

\* f put into the sorted list s behind every element that is not larger.
InsertBySize(s, f) ==
    LET k == Cardinality({i \in 1..Len(s) : s[i].size <= f.size})
    IN  SubSeq(s, 1, k) \o <<f>> \o SubSeq(s, k + 1, Len(s))

RECURSIVE SortBySize(_)
\* list.sort(key=lambda x: x['size']): ascending and stable.
SortBySize(s) ==
    IF s = <<>> THEN <<>>
    ELSE InsertBySize(SortBySize(SubSeq(s, 1, Len(s) - 1)), s[Len(s)])

\* A plausible slip: the caller's max_files left out of the truncation.
SelectValidConfigCap(files, maxf) ==
    Take(SortBySize(SelectSeq(files, SizeOk)), MAX_FILES_PER_ANALYSIS)

\* valid_files of analyze_repository, lines 45-52.
SelectValid(files, maxf) ==
    LET sorted == SortBySize(SelectSeq(files, SizeOk))
    IN  IF maxf # 0 THEN Take(sorted, maxf)
        ELSE Take(sorted, MAX_FILES_PER_ANALYSIS)

(***************************************************************************)
(* LLMAnalyzer (src/llm_analyzer.py)                                       *)
(***************************************************************************)
\* _call_ollama: reply is the service's answer, status 0 a RequestException
\* (connection error or timeout), body the 'response' text of a 200 answer.
_call_ollama(reply) == IF reply.status = 200 THEN Some(reply.body) ELSE None

\* "LLM 응답 파싱 실패"
PARSE_FAILED_NOTE == "LLM response parsing failed"

\* "분석 실패"
ANALYSIS_FAILED_NOTE == "analysis failed"

\* "LLM 분석 실패"
ANALYSIS_FAILED_ERROR == "LLM analysis failed"

_create_fallback_result(resp) ==
    [overall_score |-> Num(50),
     issues |-> ListV(<<>>),
     improvements |-> ListV(<<StrV(PARSE_FAILED_NOTE)>>),
     positive_points |-> ListV(<<>>),
     raw_response |-> StrV(Join(Slice(resp, 0, RAW_RESPONSE_LIMIT)))]

\* A plausible slip: the failure result given the neutral score of the fallback.
_create_empty_result_neutral ==
    [overall_score |-> Num(50),
     issues |-> ListV(<<>>),
     improvements |-> ListV(<<StrV(ANALYSIS_FAILED_NOTE)>>),
     positive_points |-> ListV(<<>>),
     error |-> StrV(ANALYSIS_FAILED_ERROR)]

_create_empty_result ==
    [overall_score |-> Num(0),
     issues |-> ListV(<<>>),
     improvements |-> ListV(<<StrV(ANALYSIS_FAILED_NOTE)>>),
     positive_points |-> ListV(<<>>),
     error |-> StrV(ANALYSIS_FAILED_ERROR)]

\* analyze_code, from the inference call on (lines 91-108).
analyze_code(reply) ==
    LET resp == _call_ollama(reply)
    IN  IF Truthy(resp)
        THEN LET r == _parse_json_response(resp.val)
             IN  IF r.raised THEN _create_fallback_result(resp.val) ELSE r.value
        ELSE _create_empty_result

\* A plausible slip: a missing key read as 0 whatever default the call names.
GetZero(d, key, default) == IF key \in DOMAIN d THEN d[key] ELSE Num(0)

\* dict.get(key, default)
Get(d, key, default) == IF key \in DOMAIN d THEN d[key] ELSE default

\* len(x) raises TypeError for a number.
HasLen(x) == x.t # "num"

LenOf(x) ==
    IF x.t = "obj" THEN Cardinality(DOMAIN x.members)
    ELSE IF x.t = "list" THEN Len(x.items)
    ELSE Len(x.str)

\* A plausible slip: the mean cut off after one decimal instead of rounded.
Round1Truncated(total, n) == total \div n

\* round(total / n, 1) in tenths, for n > 0: to nearest, a tie to the even tenth
\* (the model's scores are multiples of 0.5, which binary floating point holds exactly).
Round1(total, n) ==
    LET q == total \div n
        r == total % n
    IN  IF 2 * r < n THEN q
        ELSE IF 2 * r > n THEN q + 1
        ELSE IF q % 2 = 0 THEN q ELSE q + 1

\* A plausible slip: the empty batch given the neutral score.
AverageScoreNeutral(total, n) == IF n > 0 THEN Round1(total, n) ELSE 50

\* round(total_score / len(results) if results else 0, 1), lines 139 and 147.
AverageScore(total, n) == IF n > 0 THEN Round1(total, n) ELSE 0

RECURSIVE SumIssues(_)
\* sum(len(r.get('issues', [])) for r in results), all lengths defined.
SumIssues(rs) ==
    IF rs = <<>> THEN 0
    ELSE LenOf(Get(rs[1], "issues", ListV(<<>>))) + SumIssues(Tail(rs))

IssuesCountable(rs) ==
    \A i \in 1..Len(rs) : HasLen(Get(rs[i], "issues", ListV(<<>>)))

\* The return value of analyze_multiple_files, lines 144-153 (the clock readings
\* analysis_time and analysis_timestamp are left out).
FinalReport(rs, total) ==
    [kind |-> "report",
     summary |-> [total_files |-> Len(rs),
                  average_score |-> AverageScore(total, Len(rs)),
                  total_issues |-> SumIssues(rs)],
     files |-> rs]

\* {} returned by an entry point.
EmptyReport == [kind |-> "empty"]

\* Nothing returned yet, or an exception left the entry point.
NoReport == [kind |-> "none"]

(***************************************************************************)
(* CodeReviewAssistant.analyze_local_project: the walk (src/main.py 172-185)*)
(***************************************************************************)
EXCLUDED_DIRS == {<<".git">>, <<"__pycache__">>, <<"node_modules">>, <<"venv">>, <<".vscode">>}

ProjectPath == <<"proj">>

\* os.path.join(root, name)
PathJoin(root, name) == root \o <<"/">> \o name

\* os.path.relpath(path, start), for a path below start
RelPath(path, start) == SubSeq(path, Len(start) + 2, Len(path))

NotExcluded(d) == d.name \notin EXCLUDED_DIRS

\* The files of one directory that pass lines 179-182, as (path, on-disk size).
RECURSIVE LocalFiles(_, _, _)
LocalFiles(root, files, i) ==
    IF i > Len(files) THEN <<>>
    ELSE IF Supported(files[i].name) /\ files[i].size <= MAX_FILE_SIZE
    THEN <<[path |-> PathJoin(root, files[i].name), size |-> files[i].size]>>
         \o LocalFiles(root, files, i + 1)
    ELSE LocalFiles(root, files, i + 1)

RECURSIVE LocalWalk(_, _), LocalWalkDirs(_, _, _)
\* The for loop over os.walk(root): node is the directory root on disk,
\* [readable, dirs, files]; a directory that cannot be listed yields nothing.
LocalWalk(root, node) ==
    IF ~node.readable THEN <<>>
    ELSE LocalFiles(root, node.files, 1)
         \o LocalWalkDirs(root, SelectSeq(node.dirs, NotExcluded), 1)

LocalWalkDirs(root, dirs, i) ==
    IF i > Len(dirs) THEN <<>>
    ELSE LocalWalk(PathJoin(root, dirs[i].name), dirs[i].node)
         \o LocalWalkDirs(root, dirs, i + 1)

(***************************************************************************)
(* Inputs: what the GitHub API, the disk and the inference service answer. *)
(***************************************************************************)
\* Depth of directory nesting below the root in a remote or local tree.
TreeDepth == 1

Sizes == {1, 2, 3}

NameA == <<"a", ".py">>

NameB == <<"b", ".js">>

\* contains a supported extension, ends in another one
NameR == <<"r", ".py", ".md">>

NameD == <<"d">>

FailStatuses == {0, 401, 403, 500}

Failures == {Reply(st, <<>>) : st \in FailStatuses}

\* get_repo_info / get_pull_request: found or not
InfoReplies == {Reply(200, <<"info">>), Reply(404, <<>>)}

RemoteFile(dir, name, sizes) == {<<>>} \cup {<<FileItem(dir, name, sz)>> : sz \in sizes}

RECURSIVE ListingReplies(_, _)
\* The replies to get_repo_contents(dir) for trees nested at most `depth` deeper.
ListingReplies(dir, depth) ==
    LET subdirs == IF depth = 0 THEN {<<>>}
                   ELSE {<<>>} \cup
                        {<<DirItem(dir, NameD, l)>> :
                            l \in ListingReplies(PathOf(dir, NameD), depth - 1)}
        others == IF depth = 0 THEN {<<>>} ELSE RemoteFile(dir, NameR, {1})
    IN  Failures \cup
        {Reply(200, a \o b \o d \o r) :
            a \in RemoteFile(dir, NameA, Sizes), b \in RemoteFile(dir, NameB, Sizes),
            d \in subdirs, r \in others}

NameE == <<"e">>

RECURSIVE WalkListings(_, _)
\* The remote trees of the walk specification: a file, a directory nested at most
\* `depth` deeper, a sibling directory without subdirectories, and a file listed
\* after both; every listing call may fail.
WalkListings(dir, depth) ==
    LET deep == IF depth = 0 THEN {<<>>}
                ELSE {<<>>} \cup
                     {<<DirItem(dir, NameD, l)>> :
                         l \in WalkListings(PathOf(dir, NameD), depth - 1)}
        leaf == IF depth = 0 THEN {<<>>}
                ELSE {<<>>} \cup
                     {<<DirItem(dir, NameE, l)>> :
                         l \in WalkListings(PathOf(dir, NameE), 0)}
    IN  Failures \cup
        {Reply(200, a \o d \o e \o b) :
            a \in RemoteFile(dir, NameA, {1}), d \in deep, e \in leaf,
            b \in RemoteFile(dir, NameB, {1})}

\* The replies to a contents request for one file.
ContentBody(type, decodable, content) ==
    [type |-> type, decodable |-> decodable, content |-> content]

ContentReplies ==
    {Reply(200, ContentBody("file", TRUE, <<"c">>)),
     Reply(200, ContentBody("file", TRUE, <<>>)),
     Reply(200, ContentBody("file", FALSE, <<>>)),
     Reply(200, ContentBody("dir", TRUE, <<>>)),
     Reply(404, ContentBody("none", FALSE, <<>>))}

\* A changed-file entry of a pull request; size is the size of the file itself,
\* which the entry does not carry.
PrEntry(path, status, size) == [filename |-> path, status |-> status, size |-> size]

PrChoice(path, statuses, sizes) ==
    {<<>>} \cup {<<PrEntry(path, st, sz)>> : st \in statuses, sz \in sizes}

PrListReplies ==
    Failures \cup
    {Reply(200, a \o b \o c \o d \o r) :
        a \in PrChoice(NameA, {"added", "removed"}, {1, 3}),
        b \in PrChoice(NameB, {"modified"}, {1, 2}),
        c \in PrChoice(PathOf(NameD, NameA), {"added"}, {2}),
        d \in PrChoice(PathOf(NameD, NameB), {"added", "removed"}, {1}),
        r \in PrChoice(NameR, {"added"}, {1})}

LocalFile(name, sizes) == {<<>>} \cup {<<[name |-> name, size |-> sz]>> : sz \in sizes}

Unreadable == [readable |-> FALSE, dirs |-> <<>>, files |-> <<>>]

RECURSIVE LocalNodes(_)
\* The directories on disk, nested at most `depth` deeper.
LocalNodes(depth) ==
    LET subdirs == IF depth = 0 THEN {<<>>}
                   ELSE {<<>>} \cup
                        {<<[name |-> NameD, node |-> n]>> : n \in LocalNodes(depth - 1)}
        hidden == IF depth = 0 THEN {<<>>}
                  ELSE {<<>>,
                        <<[name |-> <<".git">>,
                           node |-> [readable |-> TRUE, dirs |-> <<>>,
                                     files |-> <<[name |-> NameA, size |-> 1]>>]]>>}
        others == IF depth = 0 THEN {<<>>} ELSE LocalFile(NameR, {1})
    IN  {Unreadable} \cup
        {[readable |-> TRUE, dirs |-> h \o d, files |-> a \o b \o r] :
            a \in LocalFile(NameA, Sizes), b \in LocalFile(NameB, Sizes),
            d \in subdirs, h \in hidden, r \in others}

\* open(...).read(): raises (None), or the text read.
ReadOutcomes == {None, Some(<<>>), Some(<<"c">>)}

\* The security gate of lines 149-165: skipped, passed, issues and the user's answer.
GateOutcomes == {"skipped", "passed", "issues_y", "issues_n"}

\* max_files of analyze_repository: None or 0, below and above the configured cap.
MaxFilesArgs == {0, 1, 4}

\* The response texts of the inference service the pipeline is run with.
TextNormal == <<"x", "{", "S", "8", ",", "I", "[", "{", "}", "]", "}", "x">>

TextSix == <<"{", "S", "6", "}">>

TextNoJson == <<"x", "}", "{", "x">>

TextNoScore == <<"{", "}">>

TextStrScore == <<"{", "S", Quote, "x", Quote, "}">>

TextNumIssues == <<"{", "I", "7", "}">>

TextOutOfRange == <<"{", "S", "1", "2", "}">>

\* a decodable object that carries an error member
TextErrorKey == <<"{", "E", Quote, "x", Quote, "}">>

Responses ==
    {<<>>, TextNormal, TextSix, TextNoJson, TextNoScore, TextStrScore,
     TextNumIssues, TextOutOfRange, TextErrorKey}

LLMReplies == {Reply(0, <<>>), Reply(500, <<>>)} \cup {Reply(200, t) : t \in Responses}

\* The texts of the parser specification.
ParseAlphabet == {"{", "}", "S", "7", "x", ",", Quote}

Texts(n) == UNION {[1..k -> ParseAlphabet] : k \in 0..n}

(***************************************************************************)
(* The run: one entry point of CodeReviewAssistant, from call to return.   *)
(***************************************************************************)
NotParsed == [raised |-> FALSE, value |-> EmptyDict]

\* No remote tree under study (the pipeline draws the listing when it collects).
NoTree == Reply(0, <<>>)

Idle ==
    /\ all_files = <<>>
    /\ valid_files = <<>>
    /\ pr_files = <<>>
    /\ files_with_content = <<>>
    /\ idx = 1
    /\ fetch_log = <<>>
    /\ results = <<>>
    /\ total_score = 0
    /\ llm_log = <<>>
    /\ report = NoReport
    /\ rendered = {}
    /\ discarded = 0

Init ==
    /\ pc = "start"
    /\ mode \in {"repo", "pr", "local"}
    /\ max_files \in (IF mode = "repo" THEN MaxFilesArgs ELSE {0})
    /\ Idle
    /\ response = <<>>
    /\ parsed = NotParsed
    /\ tree = NoTree

\* return {} from an entry point
ReturnEmpty ==
    /\ pc' = "done"
    /\ report' = EmptyReport

\* One entry of fetch_log: the file asked for, its size and what came back.
Fetched(path, size, content) == [path |-> path, size |-> size, content |-> content]

\* The tail of every entry point: if files_with_content: return
\* self.llm_analyzer.analyze_multiple_files(files_with_content) else: return {}.
\* Entering analyze_multiple_files runs its lines 112-117; the entry point's
\* other locals are dead from here on.
AnalyzeOrReturn ==
    /\ IF files_with_content # <<>>
       THEN /\ pc' = "analyze"
            /\ report' = report
       ELSE ReturnEmpty
    /\ idx' = 1
    /\ results' = <<>>
    /\ total_score' = 0
    /\ llm_log' = <<>>
    /\ all_files' = <<>>
    /\ valid_files' = <<>>
    /\ pr_files' = <<>>
    /\ fetch_log' = <<>>
    /\ UNCHANGED <<mode, max_files, files_with_content, response, parsed, tree,
                   rendered, discarded>>

(***************************************************************************)
(* analyze_repository (src/main.py 22-80)                                  *)
(***************************************************************************)
RepoInfo ==
    /\ pc = "start" /\ mode = "repo"
    /\ \E reply \in InfoReplies :
          IF ~(_make_request(reply)).some
          THEN ReturnEmpty
          ELSE pc' = "get_all_files" /\ report' = report
    /\ UNCHANGED <<mode, max_files, all_files, valid_files, pr_files,
                   files_with_content, idx, fetch_log, results, total_score,
                   llm_log, response, parsed, tree,
                   rendered, discarded>>

\* lines 38-54 for a remote tree answering `listing`: the tree walk, then the size
\* filter, the sort and the cap
Collect(listing) ==
    /\ all_files' = get_all_files(listing)
    /\ IF all_files' = <<>>
       THEN /\ ReturnEmpty
            /\ valid_files' = valid_files
       ELSE /\ valid_files' = SelectValid(all_files', max_files)
            /\ pc' = "download"
            /\ report' = report
    /\ idx' = 1

RepoCollect ==
    /\ pc = "get_all_files"
    /\ \E listing \in ListingReplies(<<>>, TreeDepth) : Collect(listing)
    /\ UNCHANGED <<mode, max_files, pr_files, files_with_content, fetch_log,
                   results, total_score, llm_log, response, parsed, tree,
                   rendered, discarded>>

\* lines 61-73: one iteration of the download loop
RepoDownload ==
    /\ pc = "download" /\ idx <= Len(valid_files)
    /\ \E reply \in ContentReplies :
          LET file_info == valid_files[idx]
              content == get_file_content(reply)
          IN  /\ files_with_content' =
                    IF Truthy(content)
                    THEN Append(files_with_content,
                                [path |-> file_info.path, content |-> content.val,
                                 size |-> file_info.size])
                    ELSE files_with_content
              /\ fetch_log' = Append(fetch_log,
                                     Fetched(file_info.path, file_info.size, content))
    /\ idx' = idx + 1
    /\ UNCHANGED <<pc, mode, max_files, all_files, valid_files, pr_files, results,
                   total_score, llm_log, report, response, parsed, tree,
                   rendered, discarded>>

\* lines 75-80
RepoAnalyze ==
    /\ pc = "download" /\ idx > Len(valid_files)
    /\ AnalyzeOrReturn

(***************************************************************************)
(* analyze_pull_request (src/main.py 82-138)                               *)
(***************************************************************************)
PrInfo ==
    /\ pc = "start" /\ mode = "pr"
    /\ \E reply \in InfoReplies :
          IF ~(_make_request(reply)).some
          THEN ReturnEmpty
          ELSE pc' = "get_pr_files" /\ report' = report
    /\ UNCHANGED <<mode, max_files, all_files, valid_files, pr_files,
                   files_with_content, idx, fetch_log, results, total_score,
                   llm_log, response, parsed, tree,
                   rendered, discarded>>

\* lines 97-102
PrFiles ==
    /\ pc = "get_pr_files"
    /\ \E reply \in PrListReplies :
          LET got == _make_request(reply)
          IN  IF ~Truthy(got)
              THEN ReturnEmpty /\ pr_files' = pr_files
              ELSE /\ pr_files' = got.val
                   /\ pc' = "pr_loop"
                   /\ report' = report
    /\ idx' = 1
    /\ UNCHANGED <<mode, max_files, all_files, valid_files, files_with_content,
                   fetch_log, results, total_score, llm_log, response, parsed, tree,
                   rendered, discarded>>

\* lines 109-131: one iteration of the loop over pr_files
PrFileStep ==
    /\ pc = "pr_loop" /\ idx <= Len(pr_files)
    /\ LET file_info == pr_files[idx]
           filename == file_info.filename
       IN  IF file_info.status = "removed" \/ ~Supported(filename)
           THEN UNCHANGED <<files_with_content, fetch_log>>
           ELSE \E reply \in ContentReplies :
                   LET content == get_file_content(reply)
                   IN  /\ files_with_content' =
                             IF Truthy(content)
                             THEN Append(files_with_content,
                                         [path |-> filename, content |-> content.val])
                             ELSE files_with_content
                       /\ fetch_log' = Append(fetch_log,
                                              Fetched(filename, file_info.size, content))
    /\ idx' = idx + 1
    /\ UNCHANGED <<pc, mode, max_files, all_files, valid_files, pr_files, results,
                   total_score, llm_log, report, response, parsed, tree,
                   rendered, discarded>>

\* lines 133-138
PrAnalyze ==
    /\ pc = "pr_loop" /\ idx > Len(pr_files)
    /\ AnalyzeOrReturn

(***************************************************************************)
(* analyze_local_project (src/main.py 140-213)                             *)
(***************************************************************************)
\* lines 144-165: the path test and the security gate
LocalStart ==
    /\ pc = "start" /\ mode = "local"
    /\ \E exists \in BOOLEAN, gate \in GateOutcomes :
          IF ~exists \/ gate = "issues_n"
          THEN ReturnEmpty
          ELSE pc' = "walk" /\ report' = report
    /\ UNCHANGED <<mode, max_files, all_files, valid_files, pr_files,
                   files_with_content, idx, fetch_log, results, total_score,
                   llm_log, response, parsed, tree,
                   rendered, discarded>>

\* lines 172-185: the walk and the cap (valid_files is all_file_paths after line 185)
LocalCollect ==
    /\ pc = "walk"
    /\ \E node \in LocalNodes(TreeDepth) :
          /\ all_files' = LocalWalk(ProjectPath, node)
          /\ valid_files' = Take(all_files', MAX_FILES_PER_ANALYSIS)
    /\ pc' = "read"
    /\ idx' = 1
    /\ UNCHANGED <<mode, max_files, pr_files, files_with_content, fetch_log,
                   results, total_score, llm_log, report, response, parsed, tree,
                   rendered, discarded>>

\* lines 189-204: one iteration of the read loop
LocalRead ==
    /\ pc = "read" /\ idx <= Len(valid_files)
    /\ \E content \in ReadOutcomes :
          LET file_path == valid_files[idx].path
              relative_path == RelPath(file_path, ProjectPath)
          IN  /\ files_with_content' =
                    IF content.some
                    THEN Append(files_with_content,
                                [path |-> relative_path, content |-> content.val,
                                 size |-> valid_files[idx].size])
                    ELSE files_with_content
              /\ fetch_log' = Append(fetch_log,
                                     Fetched(relative_path, valid_files[idx].size, content))
    /\ idx' = idx + 1
    /\ UNCHANGED <<pc, mode, max_files, all_files, valid_files, pr_files, results,
                   total_score, llm_log, report, response, parsed, tree,
                   rendered, discarded>>

\* lines 206-213
LocalAnalyze ==
    /\ pc = "read" /\ idx > Len(valid_files)
    /\ AnalyzeOrReturn

(***************************************************************************)
(* analyze_multiple_files (src/llm_analyzer.py 110-153)                    *)
(***************************************************************************)
\* A plausible slip: the loop over files, without the slice.
BatchAll == files_with_content

RECURSIVE Reverse(_)
Reverse(s) == IF s = <<>> THEN <<>> ELSE Append(Reverse(Tail(s)), Head(s))

\* A plausible slip: the capped records gone through from the last to the first.
BatchReversed == Reverse(Take(files_with_content, MAX_FILES_PER_ANALYSIS))

\* files[:Config.MAX_FILES_PER_ANALYSIS]
Batch == Take(files_with_content, MAX_FILES_PER_ANALYSIS)

\* lines 120-134: one iteration of the loop; a TypeError of line 129 leaves the call
AnalyzeFile ==
    /\ pc = "analyze" /\ idx <= Len(Batch)
    /\ LET file_info == Batch[idx]
       IN  IF Len(file_info.content) > 0
           THEN \E reply \in LLMReplies :
                   LET result == ("file_path" :> file_info.path) @@ analyze_code(reply)
                       score == Get(result, "overall_score", Num(50))
                   IN  /\ results' = Append(results, result)
                       /\ llm_log' = Append(llm_log, reply)
                       /\ IF score.t = "num"
                          THEN /\ total_score' = total_score + score.num
                               /\ pc' = pc
                          ELSE /\ total_score' = total_score
                               /\ pc' = "raised"
           ELSE UNCHANGED <<results, llm_log, total_score, pc>>
    /\ idx' = idx + 1
    /\ UNCHANGED <<mode, max_files, all_files, valid_files, pr_files,
                   files_with_content, fetch_log, report, response, parsed, tree,
                   rendered, discarded>>

\* lines 136-153: the summary; a TypeError of line 140 leaves the call
Summarize ==
    /\ pc = "analyze" /\ idx > Len(Batch)
    /\ IF IssuesCountable(results)
       THEN /\ report' = FinalReport(results, total_score)
            /\ pc' = "done"
       ELSE /\ report' = report
            /\ pc' = "raised"
    /\ UNCHANGED <<mode, max_files, all_files, valid_files, pr_files,
                   files_with_content, idx, fetch_log, results, total_score,
                   llm_log, response, parsed, tree,
                   rendered, discarded>>

Next ==
    \/ RepoInfo \/ RepoCollect \/ RepoDownload \/ RepoAnalyze
    \/ PrInfo \/ PrFiles \/ PrFileStep \/ PrAnalyze
    \/ LocalStart \/ LocalCollect \/ LocalRead \/ LocalAnalyze
    \/ AnalyzeFile \/ Summarize

Spec == Init /\ [][Next]_vars

(***************************************************************************)
(* main (src/main.py 291-347): the entry point runs inside a try block; an *)
(* interrupt or an exception ends main, a returned result goes to the      *)
(* renderers.                                                              *)
(***************************************************************************)
\* A plausible slip: the try block drawn around the renderers as well, so that an
\* interrupt can follow them.
StagesWithRendering ==
    {"start", "get_all_files", "download", "get_pr_files", "pr_loop", "walk", "read",
     "analyze", "done", "exit"}

\* The stages of a run inside the try block, the summary display of lines 316-322
\* ("done": the entry point has returned) included.
Stages ==
    {"start", "get_all_files", "download", "get_pr_files", "pr_loop", "walk", "read",
     "analyze", "done"}

\* --output
Outputs == {"console", "html", "json", "all"}

\* lines 336-343: the renderers an --output value selects
RenderersFor(output) ==
    {r \in {"console", "html", "json"} : output \in {r, "all"}}

\* The call frames of the entry point are gone: its locals with them.
FramesGone ==
    /\ all_files' = <<>>
    /\ valid_files' = <<>>
    /\ pr_files' = <<>>
    /\ files_with_content' = <<>>
    /\ idx' = 1
    /\ fetch_log' = <<>>
    /\ results' = <<>>
    /\ total_score' = 0
    /\ llm_log' = <<>>

\* KeyboardInterrupt raised at any point of the try block: no handler of the run
\* catches it (they catch Exception or RequestException), lines 324-326 return.
Interrupt ==
    /\ pc \in Stages
    /\ pc' = "interrupted"
    /\ discarded' = Len(results)
    /\ FramesGone
    /\ UNCHANGED <<mode, max_files, report, response, parsed, tree, rendered>>

\* An exception left the entry point: lines 327-329 return.
MainExcept ==
    /\ pc = "raised"
    /\ pc' = "failed"
    /\ FramesGone
    /\ UNCHANGED <<mode, max_files, report, response, parsed, tree, rendered, discarded>>

\* lines 334-347: the renderers run for a truthy analysis_result ({} is falsy)
Render ==
    /\ pc = "done"
    /\ pc' = "exit"
    /\ IF report.kind = "report"
       THEN \E output \in Outputs : rendered' = RenderersFor(output)
       ELSE rendered' = rendered
    /\ FramesGone
    /\ UNCHANGED <<mode, max_files, report, response, parsed, tree, discarded>>

NextMain == Next \/ Interrupt \/ MainExcept \/ Render

SpecMain == Init /\ [][NextMain]_vars

(***************************************************************************)
(* The parser on its own: _parse_json_response applied to every short text. *)
(***************************************************************************)
InitParse ==
    /\ pc = "parse"
    /\ mode = "repo"
    /\ max_files = 0
    /\ Idle
    /\ response \in Texts(MaxTextLen)
    /\ parsed = NotParsed
    /\ tree = NoTree

ParseResponse ==
    /\ pc = "parse"
    /\ parsed' = _parse_json_response(response)
    /\ pc' = "parsed"
    /\ UNCHANGED <<mode, max_files, all_files, valid_files, pr_files,
                   files_with_content, idx, fetch_log, results, total_score,
                   llm_log, report, response, tree,
                   rendered, discarded>>

NextParse == ParseResponse

SpecParse == InitParse /\ [][NextParse]_vars

(***************************************************************************)
(* The remote walk on its own: analyze_repository's collection applied to  *)
(* every remote tree of WalkListings.                                      *)
(***************************************************************************)
InitWalk ==
    /\ pc = "get_all_files"
    /\ mode = "repo"
    /\ max_files = 0
    /\ Idle
    /\ response = <<>>
    /\ parsed = NotParsed
    /\ tree \in WalkListings(<<>>, TreeDepth)

WalkCollect ==
    /\ pc = "get_all_files"
    /\ Collect(tree)
    /\ UNCHANGED <<mode, max_files, pr_files, files_with_content, fetch_log,
                   results, total_score, llm_log, response, parsed, tree,
                   rendered, discarded>>

NextWalk == WalkCollect

SpecWalk == InitWalk /\ [][NextWalk]_vars

(***************************************************************************)
(* Properties                                                              *)
(***************************************************************************)
\* The cap in force: the caller's max_files, else the configured one.
Cap == IF max_files # 0 THEN max_files ELSE MAX_FILES_PER_ANALYSIS

\* The running loop of the entry point has gone through its whole list.
LoopDone ==
    \/ pc \in {"download", "read"} /\ idx > Len(valid_files)
    \/ pc = "pr_loop" /\ idx > Len(pr_files)

NoRepeat(s) == \A i, j \in 1..Len(s) : i # j => s[i].path # s[j].path

\* C1 (filter correctness): in every collection mode, every file handed to the
\* content fetch has a name ending in a supported extension and a size of at
\* most MAX_FILE_SIZE.
C1_FilterCorrectness ==
    \A i \in 1..Len(fetch_log) :
        /\ Supported(fetch_log[i].path)
        /\ fetch_log[i].size <= MAX_FILE_SIZE

\* C2 (cap with smallest first): in every collection mode the files handed on are
\* in ascending order of size, at most the cap in number, and no file that passed
\* the filters and was left out is smaller than one that was kept.
C2_CapSmallestFirst ==
    /\ \A i, j \in 1..Len(fetch_log) :
          i < j => fetch_log[i].size <= fetch_log[j].size
    /\ Len(fetch_log) <= Cap
    /\ pc \in {"download", "read"} =>
          /\ Len(valid_files) = Min(Cap, Len(SelectSeq(all_files, SizeOk)))
          /\ \A i \in 1..Len(all_files), k \in 1..Len(valid_files) :
                (SizeOk(all_files[i])
                 /\ \A j \in 1..Len(valid_files) : valid_files[j].path # all_files[i].path)
                => valid_files[k].size <= all_files[i].size

\* C3 (pull-request filtering): of the changed-file entries gone through, a removed
\* one and one without a supported extension are neither fetched nor among the
\* records; every other one whose content fetch succeeded is among the records.
C3_PrFiltering ==
    pc = "pr_loop" =>
        \A i \in 1..(idx - 1) :
            LET e == pr_files[i]
            IN  IF e.status = "removed" \/ ~Supported(e.filename)
                THEN /\ \A k \in 1..Len(fetch_log) : fetch_log[k].path # e.filename
                     /\ \A k \in 1..Len(files_with_content) :
                           files_with_content[k].path # e.filename
                ELSE (\E k \in 1..Len(fetch_log) :
                         fetch_log[k].path = e.filename /\ fetch_log[k].content.some)
                     => \E k \in 1..Len(files_with_content) :
                           files_with_content[k].path = e.filename

\* C4 (no duplicates): no path occurs twice in the files one collection run
\* produces: not in the collected list, not in the selection, not among the
\* files fetched, not among the records.
C4_NoDuplicates ==
    /\ NoRepeat(all_files)
    /\ NoRepeat(valid_files)
    /\ NoRepeat(fetch_log)
    /\ NoRepeat(files_with_content)

\* C4's case: a remote tree with the same file name in two directories, collected.
C4_Witness ==
    /\ mode = "repo" /\ pc = "download"
    /\ \E i, j \in 1..Len(all_files) :
          i # j /\ all_files[i].name = all_files[j].name

BraceFree(t) == \A i \in 1..Len(t) : t[i] \notin {"{", "}"}

\* response = prose, then a JSON object at positions i..j, then prose.
ProseObjectProse(i, j) ==
    /\ BraceFree(SubSeq(response, 1, i - 1))
    /\ BraceFree(SubSeq(response, j + 1, Len(response)))
    /\ response[i] = "{"
    /\ JsonLoads(SubSeq(response, i, j)).ok

\* C5 (parser round trip): for a text made of brace-free prose, a valid JSON object
\* and brace-free prose, _parse_json_response returns the decoded object.
C5_ParserRoundTrip ==
    pc = "parsed" =>
        \A i \in 1..Len(response), j \in 1..Len(response) :
            (i <= j /\ ProseObjectProse(i, j))
            => parsed = Returned(JsonLoads(SubSeq(response, i, j)).val.members)

\* C5's case: an object with prose on both sides has been parsed.
C5_Witness ==
    /\ pc = "parsed"
    /\ \E i \in 2..Len(response), j \in 1..(Len(response) - 1) :
          i <= j /\ ProseObjectProse(i, j)

\* No JSON object can be extracted from text t.
NoJsonIn(t) ==
    \/ Find(t, "{") = -1
    \/ RFind(t, "}") = -1
    \/ ~JsonLoads(Slice(t, Find(t, "{"), RFind(t, "}") + 1)).ok

\* The fallback result for text t, as the claim describes it.
IsFallbackFor(r, t) ==
    /\ {"overall_score", "issues", "improvements", "positive_points", "raw_response"}
          \subseteq DOMAIN r
    /\ r.overall_score = Num(50)
    /\ r.issues = ListV(<<>>)
    /\ r.positive_points = ListV(<<>>)
    /\ r.improvements = ListV(<<StrV(PARSE_FAILED_NOTE)>>)
    /\ r.raw_response = StrV(Join(SubSeq(t, 1, Min(Len(t), RAW_RESPONSE_LIMIT))))

\* C6 (parser fallback): whenever the service returned a text from which no JSON
\* object can be extracted, the result is the fallback result: score 5.0, no issues,
\* no positive points, the one note, raw_response the first characters of the text.
C6_ParserFallback ==
    \A i \in 1..Len(results) :
        (llm_log[i].status = 200 /\ NoJsonIn(llm_log[i].body))
        => IsFallbackFor(results[i], llm_log[i].body)

\* The score a result counts with in the original claim: its overall_score, nothing
\* when it carries none.
ScorePresent(r) == IF "overall_score" \in DOMAIN r THEN r.overall_score.num ELSE 0

\* The score a result counts with: its overall_score, 5.0 when it carries none.
ScoreOrNeutral(r) == IF "overall_score" \in DOMAIN r THEN r.overall_score.num ELSE 50

IssueCount(r) == IF "issues" \in DOMAIN r THEN LenOf(r.issues) ELSE 0

RECURSIVE SumOf(_, _)
SumOf(F(_), rs) == IF rs = <<>> THEN 0 ELSE F(rs[Len(rs)]) + SumOf(F, SubSeq(rs, 1, Len(rs) - 1))

Abs(x) == IF x < 0 THEN -x ELSE x

\* avg (tenths) is total / n rounded to one decimal: no tenth is nearer.
IsRounded(avg, total, n) == 2 * Abs(avg * n - total) <= n

C8_EmptyBatch ==
    /\ (pc = "raised" => results # <<>>)
    /\ (report.kind = "report" /\ report.files = <<>>) =>
          /\ report.summary.total_files = 0
          /\ report.summary.average_score = 0

\* C8's case: a batch whose records all went without a result has been summarised.
C8_Witness ==
    /\ pc = "done" /\ report.kind = "report" /\ report.files = <<>>
    /\ files_with_content # <<>>

\* C9 (one result per record): for at most MAX_FILES_PER_ANALYSIS records, the
\* report returned holds in files one result per record, in order, each with the
\* record's path, and total_files is the number of records.
C9_OneResultPerRecord ==
    (pc = "done" /\ report.kind = "report"
     /\ Len(files_with_content) <= MAX_FILES_PER_ANALYSIS) =>
        /\ Len(report.files) = Len(files_with_content)
        /\ \A i \in 1..Len(report.files) :
              report.files[i].file_path = files_with_content[i].path
        /\ report.summary.total_files = Len(files_with_content)

\* The inference call behind results[i] failed.
CallFailed(reply) == reply.status # 200

\* C10 as stated (failure record): score 0, no issues, no improvements, no positive
\* points, error set.
C10_FailureAllEmpty ==
    \A i \in 1..Len(results) :
        CallFailed(llm_log[i]) =>
            /\ results[i].overall_score = Num(0)
            /\ results[i].issues = ListV(<<>>)
            /\ results[i].improvements = ListV(<<>>)
            /\ results[i].positive_points = ListV(<<>>)
            /\ "error" \in DOMAIN results[i]

\* The failure result as the code builds it.
IsFailure(r) ==
    /\ DOMAIN r = {"overall_score", "issues", "improvements", "positive_points",
                   "error", "file_path"}
    /\ r.overall_score = Num(0)
    /\ r.issues = ListV(<<>>)
    /\ r.improvements = ListV(<<StrV(ANALYSIS_FAILED_NOTE)>>)
    /\ r.positive_points = ListV(<<>>)
    /\ r.error = StrV(ANALYSIS_FAILED_ERROR)

\* C10 as amended: a failed inference call gives a result with score 0, no issues,
\* no positive points, the single improvement note "analysis failed" and the error
\* field set, and the loop goes on with the next file.
C10_FailureRecord ==
    [][(Len(llm_log') = Len(llm_log) + 1 /\ CallFailed(llm_log'[Len(llm_log')])) =>
          /\ Len(results') = Len(results) + 1
          /\ IsFailure(results'[Len(results')])
          /\ pc' = "analyze"
          /\ idx' = idx + 1]_vars

\* C10's case: a failed call's result is followed by the result of the next file.
C10_Witness ==
    \E i \in 1..Len(results) : i < Len(results) /\ CallFailed(llm_log[i])

\* C11 (per-file failures are absorbed as data): whatever the inference service
\* answers for the files of a batch, analyze_multiple_files never raises to its
\* caller.
C11_NeverRaises == pc # "raised"

\* C12 (result-state exclusivity): every result is in exactly one of the states
\* normal, fallback, failure: raw_response is carried only by a fallback result,
\* error only by a failure result, and no result carries both.
C12_StateExclusivity ==
    \A i \in 1..Len(results) :
        LET r == results[i]
        IN  /\ "raw_response" \in DOMAIN r => IsFallbackFor(r, llm_log[i].body)
            /\ "error" \in DOMAIN r => IsFailure(r)
            /\ ~("raw_response" \in DOMAIN r /\ "error" \in DOMAIN r)

\* results[i] is the object decoded from the text the service answered.
IsParsedFrom(r, t) ==
    LET p == _parse_json_response(t)
    IN  ~p.raised /\ r = ("file_path" :> r.file_path) @@ p.value

\* C13 (fallback versus failure by cause): a result is the failure result exactly
\* when the inference call failed; when the service answered, whatever the text,
\* the result is the fallback result or the object parsed from the text.
C13_FailureIffNoAnswer ==
    \A i \in 1..Len(results) :
        /\ IsFailure(results[i]) <=> CallFailed(llm_log[i])
        /\ ~CallFailed(llm_log[i]) =>
              \/ IsFallbackFor(results[i], llm_log[i].body)
              \/ IsParsedFrom(results[i], llm_log[i].body)

RECURSIVE AuthFailureIn(_)
\* Some listing call of the walk over the tree answers 401 or 403.
AuthFailureIn(listing) ==
    \/ listing.status \in {401, 403}
    \/ /\ listing.status = 200
       /\ \E i \in 1..Len(listing.body) :
             /\ listing.body[i].type = "dir"
             /\ AuthFailureIn(listing.body[i].listing)

\* C14 (authentication / rate-limit abort): when a listing call of the remote walk,
\* at whatever depth, answers 401 or 403, the collection yields no file and the run
\* ends with the empty result.
C14_AuthAbort ==
    (pc # "get_all_files" /\ AuthFailureIn(tree)) =>
        /\ all_files = <<>>
        /\ report = EmptyReport

\* A listing call that failed transiently: a network error or a server error.
Transient(listing) == listing.status \in {0, 500}

\* Path p lies below directory dir.
Below(p, dir) == Len(p) > Len(dir) + 1 /\ SubSeq(p, 1, Len(dir) + 1) = dir \o <<"/">>

Collected(item) == \E k \in 1..Len(all_files) : all_files[k] = Descriptor(item)

\* Every supported file the listing names is collected.
FilesCollected(listing) ==
    listing.status = 200 =>
        \A j \in 1..Len(listing.body) :
            (listing.body[j].type = "file" /\ Supported(listing.body[j].name))
            => Collected(listing.body[j])

RECURSIVE SubtreeSkipIn(_)
\* For every subdirectory reached whose listing failed transiently: nothing below it
\* is collected, and the files of the directory that holds it, listed before or
\* after it, and those of its sibling directories are collected.
SubtreeSkipIn(listing) ==
    listing.status = 200 =>
        \A i \in 1..Len(listing.body) :
            listing.body[i].type = "dir" =>
                /\ Transient(listing.body[i].listing) =>
                      /\ \A k \in 1..Len(all_files) :
                            ~Below(all_files[k].path, listing.body[i].path)
                      /\ FilesCollected(listing)
                      /\ \A j \in 1..Len(listing.body) :
                            (j # i /\ listing.body[j].type = "dir")
                            => FilesCollected(listing.body[j].listing)
                /\ SubtreeSkipIn(listing.body[i].listing)

\* C15 (subtree skip on failed listing): when the listing call for a subdirectory
\* fails transiently, that subtree contributes no file, the traversal continues,
\* and the matching files of sibling directories and of entries listed after the
\* failed subdirectory are collected; the run goes on with them.
C15_SubtreeSkip ==
    pc # "get_all_files" =>
        /\ SubtreeSkipIn(tree)
        /\ all_files # <<>> => pc = "download"

\* C15's case: the listing of d failed transiently; the file of its sibling e and
\* the file b listed after both have been collected.
C15_Witness ==
    /\ pc = "download" /\ tree.status = 200 /\ Len(tree.body) = 3
    /\ tree.body[1].type = "dir" /\ Transient(tree.body[1].listing)
    /\ tree.body[2].type = "dir" /\ tree.body[2].listing.status = 200
    /\ tree.body[3].type = "file"
    /\ all_files = <<Descriptor(tree.body[2].listing.body[1]), Descriptor(tree.body[3])>>

\* C16 (session outcome): a run of an entry point ends with a report whose files
\* list is not empty or with the empty result {}; it returns no report without
\* files and is not left by an exception in the middle of the batch.
C16_SessionOutcome ==
    /\ pc = "done" =>
          \/ report = EmptyReport
          \/ report.kind = "report" /\ report.files # <<>>
    /\ pc # "raised"

\* C17 (score range): every result of a report that carries a numeric overall_score
\* has it between 0 and 10, and so has the summary its average_score (tenths).
C17_ScoreRange ==
    report.kind = "report" =>
        /\ \A i \in 1..Len(report.files) :
              ("overall_score" \in DOMAIN report.files[i]
               /\ report.files[i].overall_score.t = "num")
              => /\ 0 <= report.files[i].overall_score.num
                 /\ report.files[i].overall_score.num <= 100
        /\ 0 <= report.summary.average_score
        /\ report.summary.average_score <= 100

\* C18 (batch size bound): one run of analyze_multiple_files issues at most
\* MAX_FILES_PER_ANALYSIS inference calls, and its report holds at most
\* MAX_FILES_PER_ANALYSIS results, whatever the mode and the max_files argument.
C18_BatchBound ==
    /\ Len(llm_log) <= MAX_FILES_PER_ANALYSIS
    /\ Len(results) <= MAX_FILES_PER_ANALYSIS
    /\ report.kind = "report" => Len(report.files) <= MAX_FILES_PER_ANALYSIS

\* C18's case: more records than the cap were handed over, and the report holds
\* as many results as the cap allows.
C18_Witness ==
    /\ pc = "done" /\ report.kind = "report"
    /\ Len(files_with_content) > MAX_FILES_PER_ANALYSIS
    /\ Len(report.files) = MAX_FILES_PER_ANALYSIS
    /\ Len(llm_log) = MAX_FILES_PER_ANALYSIS

\* A step that issues an inference call.
CallIssued == Len(llm_log') = Len(llm_log) + 1

\* C19 (sequential, no retry): every step issues at most one inference call; a call
\* is for the record at the loop's position, its result is appended behind the
\* results of the records before it in the same step, and the loop moves on to the
\* next record and never back, so that no record gets a second call, whatever the
\* call returned.
C19_SequentialNoRetry ==
    [][/\ llm_log' \in {llm_log, <<>>} \/ CallIssued
       /\ CallIssued =>
             /\ pc = "analyze" /\ idx <= Len(files_with_content)
             /\ SubSeq(llm_log', 1, Len(llm_log)) = llm_log
             /\ results' = Append(results, results'[Len(results')])
             /\ results'[Len(results')].file_path = files_with_content[idx].path
             /\ Len(results') = Len(llm_log')
             /\ idx' = idx + 1
       /\ (pc = "analyze" /\ pc' # "start") => idx' >= idx]_vars

\* C19's case: the call for the first record timed out or failed, and the second
\* record has had its call and its result, in input order.
C19_Witness ==
    /\ pc = "analyze" /\ idx = 3 /\ Len(llm_log) = 2 /\ Len(results) = 2
    /\ llm_log[1].status = 0
    /\ results[1].file_path = files_with_content[1].path
    /\ results[2].file_path = files_with_content[2].path
    /\ files_with_content[1].path # files_with_content[2].path

\* The content fetch of this entry of fetch_log succeeded (text fetched and decoded).
FetchSucceeded(e) == e.content.some

Paths(s) == [i \in 1..Len(s) |-> s[i].path]

\* C20 (a fetch failure skips one file only): in analyze_repository and
\* analyze_pull_request the records handed on are, in the original order, exactly
\* the files whose content fetch succeeded: a file whose fetch or decode failed has
\* no record, every other file fetched has one.
C20_FetchFailureSkipsOne ==
    pc \in {"download", "pr_loop"} =>
        Paths(files_with_content) = Paths(SelectSeq(fetch_log, FetchSucceeded))

\* C21 (coarse cancellation): an interrupt at any stage of collection, fetching or
\* analysis stops the run: no step follows it, and no renderer has been or is
\* invoked, whatever results were accumulated when it arrived.
C21_CoarseCancellation ==
    [][/\ pc # "interrupted"
       /\ pc' = "interrupted" => (rendered' = {} /\ rendered = {})]_vars

\* C21's case: the interrupt arrived in the middle of the analysis, with results
\* accumulated and no report returned.
C21_Witness ==
    /\ pc = "interrupted" /\ discarded > 0
    /\ report = NoReport /\ rendered = {}

\* The service answered with a text that decodes to an object without overall_score.
MissingScore(reply) ==
    /\ reply.status = 200
    /\ LET p == _parse_json_response(reply.body)
       IN  ~p.raised /\ "overall_score" \notin DOMAIN p.value

\* C22 (missing-score default in the mean): a result decoded from a response without
\* overall_score is stored without that field and counts as 5.0 in total_score and
\* in summary.average_score.
C22_MissingScoreDefault ==
    /\ pc = "analyze" => total_score = SumOf(ScoreOrNeutral, results)
    /\ (report.kind = "report" /\ report.files # <<>>) =>
          /\ \A i \in 1..Len(report.files) :
                MissingScore(llm_log[i])
                => "overall_score" \notin DOMAIN report.files[i]
          /\ report.summary.average_score =
                Round1(SumOf(ScoreOrNeutral, report.files), Len(report.files))

\* C22's case: a report of two results, one scored 8.0 and one without overall_score,
\* whose average 6.5 is not the mean 8.0 of the scores present.
C22_Witness ==
    /\ report.kind = "report" /\ Len(report.files) = 2
    /\ "overall_score" \in DOMAIN report.files[1]
    /\ report.files[1].overall_score = Num(80)
    /\ "overall_score" \notin DOMAIN report.files[2]
    /\ report.summary.average_score = 65

\* The number of collected files that pass the size filter.
Passing == Len(SelectSeq(all_files, SizeOk))

\* C23 (effective cap with an override): analyze_repository downloads
\* min(n, max_files) files for a positive max_files and min(n, MAX_FILES_PER_ANALYSIS)
\* for max_files None or 0, n the files passing the filters; it analyses at most
\* min(max_files, MAX_FILES_PER_ANALYSIS), resp. MAX_FILES_PER_ANALYSIS, files.
C23_EffectiveCap ==
    mode = "repo" =>
        /\ pc = "download" =>
              /\ Len(valid_files) = Min(Cap, Passing)
              /\ Len(fetch_log) = idx - 1
              /\ idx <= Len(valid_files) + 1
        /\ Len(llm_log) <= Min(Cap, MAX_FILES_PER_ANALYSIS)
        /\ Len(results) <= Min(Cap, MAX_FILES_PER_ANALYSIS)
        /\ report.kind = "report" =>
              Len(report.files) <= Min(Cap, MAX_FILES_PER_ANALYSIS)

\* C23's case: with max_files above MAX_FILES_PER_ANALYSIS, max_files files were
\* downloaded and MAX_FILES_PER_ANALYSIS of them analysed.
C23_Witness ==
    /\ mode = "repo" /\ max_files > MAX_FILES_PER_ANALYSIS
    /\ pc = "done" /\ report.kind = "report"
    /\ Len(files_with_content) = max_files
    /\ Len(report.files) = MAX_FILES_PER_ANALYSIS

====
